---- MODULE Spec2Model ----
(***************************************************************************)
(* Registration / activation core of user-registration-api.               *)
(*                                                                         *)
(* The durable store is the pair of tables users / activation_codes.       *)
(* Every call of create_user or activate_user runs on its own connection   *)
(* and its own transaction (READ COMMITTED): a statement reads the         *)
(* committed tables, the rows a transaction wrote become visible to the    *)
(* others when it commits, and are dropped when it rolls back.             *)
(*                                                                         *)
(* Spec is the service (create_user, activate_user) under concurrent       *)
(* calls; SendSpec is send_activation_email on its own; the HTTP layer is  *)
(* the mapping from service outcomes to response statuses.                 *)
(***************************************************************************)
EXTENDS Integers, Sequences, FiniteSets, TLC

(***************************************************************************)
(* Bounds of the model.                                                    *)
(***************************************************************************)
\* Calls started in one behaviour (over all workers).
MaxCalls == 3
\* Clock advances in one behaviour.
MaxTicks == 1

(***************************************************************************)
(* Program constants.                                                      *)
(***************************************************************************)
\* timedelta(minutes=1), in seconds.
CodeTTL == 60
\* random.randint(0, 9999)
CodeLo == 0
CodeHi == 9999
\* f"{n:04d}"
CodeWidth == 4
\* resp.status in (200, 202)
HTTP_OK == 200
HTTP_ACCEPTED == 202

(***************************************************************************)
(* Input domains.                                                          *)
(***************************************************************************)
\* Request workers that run calls concurrently, in the order in which an
\* arriving call is handed to them.
Workers == <<"w1", "w2">>
Procs == {Workers[i] : i \in DOMAIN Workers}
Emails == {"a@x.com", "b@x.com"}
Passwords == {"password1", "password2"}
Salts == {"s1"}
\* Values drawn from random.randint(CodeLo, CodeHi): both ends of the range.
CodeInts == {CodeLo, CodeHi}
\* The clock moves by one second or by the code's validity.
TickSteps == {1, CodeTTL}
\* What the HTTP exchange with the email service can end as: an exception
\* (connection refused, timeout after 3 s) or a response with a status.
NetOutcomes ==
    {[raised |-> TRUE, status |-> 0]}
        \cup {[raised |-> FALSE, status |-> st] : st \in {200, 201, 202, 404, 500}}

VARIABLES
    users,             \* committed rows of table users
    activation_codes,  \* committed rows of table activation_codes
    next_id,           \* next value of users.id
    utcnow,            \* the clock datetime.utcnow() reads, in seconds
    ticks,             \* clock advances so far
    ncalls,            \* calls started so far
    calls              \* per worker: the call it runs, its locals and its result

vars == <<users, activation_codes, next_id, utcnow, ticks, ncalls, calls>>

(***************************************************************************)
(* Pure functions.                                                         *)
(***************************************************************************)
\* f"{n:04d}": the decimal digits of n, left-padded with zeros to 4 places.
RECURSIVE Digits(_)
Digits(n) == IF n < 10 THEN <<n>> ELSE Append(Digits(n \div 10), n % 10)

RECURSIVE ZeroPad(_, _)
ZeroPad(s, w) == IF Len(s) >= w THEN s ELSE ZeroPad(<<0>> \o s, w)

\* Mutant: the code is not zero-padded (str(n)).
Format04d_NoPad(n) == Digits(n)

Format04d(n) == ZeroPad(Digits(n), CodeWidth)

\* _generate_code() for the drawn integer n.
generate_code(n) == Format04d(n)

\* The codes a caller can submit (the route accepts ^\d{4}$).
Codes == {generate_code(n) : n \in CodeInts}

\* bcrypt.hashpw(password, salt): the salt travels in the hash; the digest
\* is determined by salt and password.
hashpw(password, salt) == <<salt, password>>

\* bcrypt.checkpw(password, hashed): re-hash with the salt of the stored hash.
checkpw(password, hashed) == hashpw(password, hashed[1]) = hashed

\* Mutant: only status 200 counts as sent.
send_activation_email_Only200(net) ==
    IF net.raised THEN FALSE
    ELSE net.status = HTTP_OK

\* send_activation_email's return value for one outcome of the exchange.
send_activation_email(net) ==
    IF net.raised THEN FALSE
    ELSE net.status \in {HTTP_OK, HTTP_ACCEPTED}

(***************************************************************************)
(* The store.                                                              *)
(***************************************************************************)
\* INSERT INTO users (email, password_hash): is_active takes its default.
NewUserRow(id, email, hashed) ==
    [id |-> id, email |-> email, password_hash |-> hashed, is_active |-> FALSE]

NewCodeRow(user_id, code, expires) ==
    [user_id |-> user_id, code |-> code, expires_at |-> expires]

\* SELECT ... FROM users WHERE email = %s
UsersByEmail(email) == {u \in users : u.email = email}

\* SELECT code, expires_at FROM activation_codes WHERE user_id = %s
CodesOfUser(user_id) == {c \in activation_codes : c.user_id = user_id}

\* Mutant: table users without the unique constraint on email.
UniqueViolation_NoConstraint(email) == FALSE

\* The unique constraint on users.email, as the INSERT meets it.
UniqueViolation(email) == UsersByEmail(email) # {}

\* Mutant: the UPDATE is missing.
MarkActive_NoUpdate(rows, user_id) == rows

\* Mutant: the UPDATE flips the flag (SET is_active = NOT is_active).
MarkActive_Toggle(rows, user_id) ==
    {IF u.id = user_id THEN [u EXCEPT !.is_active = ~@] ELSE u : u \in rows}

\* Mutant: the UPDATE has no WHERE clause.
MarkActive_AllRows(rows, user_id) ==
    {[u EXCEPT !.is_active = TRUE] : u \in rows}

\* UPDATE users SET is_active = TRUE WHERE id = %s
MarkActive(rows, user_id) ==
    {IF u.id = user_id THEN [u EXCEPT !.is_active = TRUE] ELSE u : u \in rows}

\* if db_code != code
WrongCode(db_code, code) == db_code # code

\* Mutant: the code is still accepted at its expiry time (now > expires).
Expired_AfterOnly(now, expires) == now > expires

\* if now >= expires
Expired(now, expires) == now >= expires

(***************************************************************************)
(* Calls.                                                                  *)
(*                                                                         *)
(* While a call runs, its record holds its arguments and locals.  When it  *)
(* returns or raises, the locals are gone: what stays is what the caller   *)
(* gave and got and what the log saw (op, arguments, result, ok, log, the  *)
(* closed connection), and two history flags about how a create_user call  *)
(* began (fresh: its email was unregistered; raced: another create_user    *)
(* call for the same email was in flight during it).                       *)
(***************************************************************************)
NoCode == << >>
NoHash == << >>

IdleCall ==
    [op |-> "idle", pc |-> "idle",
     email |-> "", password |-> "", code |-> NoCode,
     hashed |-> NoHash, user_id |-> 0,
     db_code |-> NoCode, expires |-> -1, now |-> -1,
     ok |-> "unset", log |-> "", conn |-> "none", tx |-> "none",
     result |-> "pending", fresh |-> FALSE, raced |-> FALSE]

Running(p) == calls[p].pc \notin {"idle", "done"}

\* Workers are interchangeable: an arriving call goes to the first one that
\* runs no call.
Free(p) ==
    /\ ~Running(p)
    /\ \A i \in DOMAIN Workers :
          (\E j \in DOMAIN Workers : i < j /\ Workers[j] = p) => Running(Workers[i])

\* The create_user calls in flight for email, other than worker p's.
Rivals(p, email) ==
    {q \in Procs \ {p} : Running(q) /\ calls[q].op = "create_user"
                         /\ calls[q].email = email}

\* Mutant: the INSERT checks the committed rows only and does not wait.
InsertBlocked_NoWait(p, email) == FALSE

\* Another transaction holds an uncommitted users row with this email: the
\* INSERT waits for it to commit or roll back.
InsertBlocked(p, email) ==
    \E q \in Procs \ {p} :
        /\ calls[q].op = "create_user"
        /\ calls[q].pc \in {"insert_code", "send_email", "commit"}
        /\ calls[q].email = email

\* Another transaction holds the row lock of an uncommitted UPDATE of this row.
UpdateBlocked(p, user_id) ==
    \E q \in Procs \ {p} :
        /\ calls[q].op = "activate_user"
        /\ calls[q].pc = "commit_update"
        /\ calls[q].user_id = user_id

Init ==
    /\ users = {}
    /\ activation_codes = {}
    /\ next_id = 1
    /\ utcnow = 0
    /\ ticks = 0
    /\ ncalls = 0
    /\ calls = [p \in Procs |-> IdleCall]

\* The clock advances.  Only the two reads of the clock observe it (expires in
\* create_user, now in activate_user), so it advances when a call is about to
\* read it.
Tick ==
    /\ ticks < MaxTicks
    /\ \E p \in Procs : calls[p].pc \in {"insert_code", "select_code"}
    /\ \E d \in TickSteps : utcnow' = utcnow + d
    /\ ticks' = ticks + 1
    /\ UNCHANGED <<users, activation_codes, next_id, ncalls, calls>>

\* Mutant: the connection is closed on the normal path only (no finally).
Finish_NoFinally(c, tx, result, log) ==
    [IdleCall EXCEPT !.op = c.op, !.pc = "done", !.email = c.email,
                     !.password = c.password, !.code = c.code,
                     !.ok = c.ok, !.log = log,
                     !.conn = IF result \in {"ConflictError", "StoreError"}
                              THEN "open" ELSE "closed",
                     !.tx = tx,
                     !.result = result, !.fresh = c.fresh, !.raced = c.raced]

\* The call of record c leaves its function: `with conn:` has committed (tx =
\* "committed") or rolled back, and `finally: conn.close()` has run.
Finish(c, tx, result, log) ==
    [IdleCall EXCEPT !.op = c.op, !.pc = "done", !.email = c.email,
                     !.password = c.password, !.code = c.code,
                     !.ok = c.ok, !.log = log, !.conn = "closed", !.tx = tx,
                     !.result = result, !.fresh = c.fresh, !.raced = c.raced]

(***************************************************************************)
(* create_user(email, password)                                            *)
(*                                                                         *)
(* A step of the model is a run of code up to the next point where the     *)
(* store lets other calls see or delay it: the INSERT INTO users (which    *)
(* waits while another transaction holds the same email uncommitted), the  *)
(* rest of the transaction's body, the commit.                             *)
(***************************************************************************)
\* The record of a call that begins: the password is hashed (and not used
\* again), the connection opened, the transaction begun.
BeginCreateUser(p, email, password, salt) ==
    [IdleCall EXCEPT
        !.op = "create_user", !.pc = "insert_user",
        !.email = email, !.hashed = hashpw(password, salt),
        !.conn = "open", !.tx = "open",
        !.fresh = ~UniqueViolation(email),
        !.raced = Rivals(p, email) # {}]

\* Mutant: registering a registered email issues a new code for the existing
\* account (INSERT ... ON CONFLICT (email) DO UPDATE ... RETURNING id).
AfterInsertUser_Upsert(c) ==
    IF UniqueViolation(c.email)
    THEN [c EXCEPT !.pc = "insert_code",
                   !.user_id = (CHOOSE u \in UsersByEmail(c.email) : TRUE).id,
                   !.hashed = (CHOOSE u \in UsersByEmail(c.email) : TRUE).password_hash]
    ELSE [c EXCEPT !.pc = "insert_code", !.user_id = next_id]

\* Mutant: the email service is called before the INSERT INTO users.
AfterInsertUser_NotifyFirst(c) ==
    IF UniqueViolation(c.email)
    THEN Finish([c EXCEPT !.ok = "True"], "rolled_back", "ConflictError", "")
    ELSE [c EXCEPT !.pc = "insert_code", !.user_id = next_id]

\* INSERT INTO users ... RETURNING id, for the call of record c: the unique
\* constraint raises UniqueViolation (rollback, ConflictError), or the row is
\* written with the next id.
AfterInsertUser(c) ==
    IF UniqueViolation(c.email)
    THEN Finish(c, "rolled_back", "ConflictError", "")
    ELSE [c EXCEPT !.pc = "insert_code", !.user_id = next_id]

NextIdAfterInsert(c) ==
    IF UniqueViolation(c.email) THEN next_id ELSE next_id + 1

\* create_user is called and runs up to its INSERT INTO users.
create_user(p) ==
    /\ Free(p)
    /\ ncalls < MaxCalls
    /\ \E email \in Emails, password \in Passwords, salt \in Salts :
          LET c == BeginCreateUser(p, email, password, salt) IN
          /\ calls' = [q \in Procs |->
                IF q = p
                THEN IF InsertBlocked(p, email) THEN c ELSE AfterInsertUser(c)
                ELSE IF q \in Rivals(p, email)
                THEN [calls[q] EXCEPT !.raced = TRUE]
                ELSE calls[q]]
          /\ next_id' = IF InsertBlocked(p, email) THEN next_id
                        ELSE NextIdAfterInsert(c)
    /\ ncalls' = ncalls + 1
    /\ UNCHANGED <<users, activation_codes, utcnow, ticks>>

\* The INSERT INTO users that had to wait goes on once the other transaction
\* has committed or rolled back.
InsertUser(p) ==
    /\ calls[p].op = "create_user" /\ calls[p].pc = "insert_user"
    /\ ~InsertBlocked(p, calls[p].email)
    /\ calls' = [calls EXCEPT ![p] = AfterInsertUser(calls[p])]
    /\ next_id' = NextIdAfterInsert(calls[p])
    /\ UNCHANGED <<users, activation_codes, utcnow, ticks, ncalls>>

\* Mutant: a failed send aborts the registration.
AfterSend_RaiseOnFailure(c, ok) ==
    IF ok
    THEN [c EXCEPT !.pc = "commit", !.ok = "True", !.log = "User created"]
    ELSE [IdleCall EXCEPT !.op = c.op, !.pc = "done", !.email = c.email,
                          !.ok = "False", !.conn = "closed", !.tx = "rolled_back",
                          !.result = "EmailError", !.fresh = c.fresh,
                          !.raced = c.raced]

\* The call's record after ok = send_activation_email(email, code): the
\* warning when not ok, the printed code, "User created" in the log.
AfterSend(c, ok) ==
    [c EXCEPT !.pc = "commit",
              !.ok = IF ok THEN "True" ELSE "False",
              !.log = "User created"]

\* code = _generate_code(); expires = utcnow() + 1 minute; INSERT INTO
\* activation_codes; then the email service is called, inside the transaction.
InsertCode(p) ==
    /\ calls[p].op = "create_user" /\ calls[p].pc = "insert_code"
    /\ \E n \in CodeInts, net \in NetOutcomes :
          calls' = [calls EXCEPT ![p] =
                      AfterSend([calls[p] EXCEPT !.code = generate_code(n),
                                                 !.expires = utcnow + CodeTTL],
                                send_activation_email(net))]
    /\ UNCHANGED <<users, activation_codes, next_id, utcnow, ticks, ncalls>>

\* Mutant: the users row is committed on its own (autocommit), so a later
\* failure leaves it behind.
RolledBackUsers_Autocommit(p) ==
    users \cup {NewUserRow(calls[p].user_id, calls[p].email, calls[p].hashed)}

\* What a rolled-back transaction of worker p leaves in the tables.
RolledBackUsers(p) == users

RolledBackCodes(p) == activation_codes

\* The INSERT INTO activation_codes raises: the transaction rolls back and
\* the error leaves create_user.
InsertCodeFails(p) ==
    /\ calls[p].op = "create_user" /\ calls[p].pc = "insert_code"
    /\ users' = RolledBackUsers(p)
    /\ activation_codes' = RolledBackCodes(p)
    /\ calls' = [calls EXCEPT ![p] =
                    Finish(calls[p], "rolled_back", "StoreError", "")]
    /\ UNCHANGED <<next_id, utcnow, ticks, ncalls>>

\* What the commit of create_user's transaction makes durable.
CommittedUsers(p) ==
    users \cup {NewUserRow(calls[p].user_id, calls[p].email, calls[p].hashed)}

CommittedCodes(p) ==
    activation_codes \cup {NewCodeRow(calls[p].user_id, calls[p].code, calls[p].expires)}

\* Leaving `with conn:` commits; create_user returns None.
Commit(p) ==
    /\ calls[p].op = "create_user" /\ calls[p].pc = "commit"
    /\ users' = CommittedUsers(p)
    /\ activation_codes' = CommittedCodes(p)
    /\ calls' = [calls EXCEPT ![p] =
                    Finish(calls[p], "committed", "None", calls[p].log)]
    /\ UNCHANGED <<next_id, utcnow, ticks, ncalls>>

\* The commit raises: nothing of the transaction is durable.
CommitFails(p) ==
    /\ calls[p].op = "create_user" /\ calls[p].pc = "commit"
    /\ users' = RolledBackUsers(p)
    /\ activation_codes' = RolledBackCodes(p)
    /\ calls' = [calls EXCEPT ![p] =
                    Finish(calls[p], "rolled_back", "StoreError", calls[p].log)]
    /\ UNCHANGED <<next_id, utcnow, ticks, ncalls>>

(***************************************************************************)
(* activate_user(email, password, code)                                    *)
(***************************************************************************)
BeginActivateUser(email, password, code) ==
    [IdleCall EXCEPT
        !.op = "activate_user", !.pc = "select_user",
        !.email = email, !.password = password, !.code = code,
        !.conn = "open", !.tx = "open"]

\* Mutant: the password is checked before is_active.
AfterSelectUser_PasswordFirst(c, rows) ==
    IF rows = {}
    THEN Finish(c, "committed", "False", "unknown user")
    ELSE LET row == CHOOSE u \in rows : TRUE
         IN  IF ~checkpw(c.password, row.password_hash)
             THEN Finish(c, "committed", "False", "invalid password")
             ELSE IF row.is_active
             THEN Finish(c, "committed", "True", "already active")
             ELSE [c EXCEPT !.pc = "select_code", !.user_id = row.id,
                            !.hashed = row.password_hash]

\* Mutant: an unknown email is reported as a failure of its own kind.
AfterSelectUser_NotFound(c, rows) ==
    IF rows = {}
    THEN Finish(c, "committed", "NotFound", "unknown user")
    ELSE LET row == CHOOSE u \in rows : TRUE
         IN  IF row.is_active
             THEN Finish(c, "committed", "True", "already active")
             ELSE IF ~checkpw(c.password, row.password_hash)
             THEN Finish(c, "committed", "False", "invalid password")
             ELSE [c EXCEPT !.pc = "select_code", !.user_id = row.id,
                            !.hashed = row.password_hash]

\* Mutant: the password is not verified.
AfterSelectUser_NoPasswordCheck(c, rows) ==
    IF rows = {}
    THEN Finish(c, "committed", "False", "unknown user")
    ELSE LET row == CHOOSE u \in rows : TRUE
         IN  IF row.is_active
             THEN Finish(c, "committed", "True", "already active")
             ELSE [c EXCEPT !.pc = "select_code", !.user_id = row.id,
                            !.hashed = row.password_hash]

\* Steps 1-3 on the fetched row: unknown user, already active, password.
AfterSelectUser(c, rows) ==
    IF rows = {}
    THEN Finish(c, "committed", "False", "unknown user")
    ELSE LET row == CHOOSE u \in rows : TRUE
         IN  IF row.is_active
             THEN Finish(c, "committed", "True", "already active")
             ELSE IF ~checkpw(c.password, row.password_hash)
             THEN Finish(c, "committed", "False", "invalid password")
             ELSE [c EXCEPT !.pc = "select_code", !.user_id = row.id,
                            !.hashed = row.password_hash]

\* activate_user is called and runs its SELECT on users and steps 1-3.
activate_user(p) ==
    /\ Free(p)
    /\ ncalls < MaxCalls
    /\ \E email \in Emails, password \in Passwords, code \in Codes :
          calls' = [calls EXCEPT ![p] =
                      AfterSelectUser(BeginActivateUser(email, password, code),
                                      UsersByEmail(email))]
    /\ ncalls' = ncalls + 1
    /\ UNCHANGED <<users, activation_codes, next_id, utcnow, ticks>>

\* Mutant: the UPDATE is restricted to inactive rows (AND is_active = FALSE)
\* and a call whose UPDATE matches no row gives up.
AfterUpdateUser_FailIfActive(c) ==
    IF \E u \in users : u.id = c.user_id /\ u.is_active
    THEN Finish(c, "rolled_back", "False", "not updated")
    ELSE [c EXCEPT !.pc = "commit_update", !.log = "User activated"]

\* Step 6: UPDATE users SET is_active = TRUE WHERE id = %s is executed in the
\* call's transaction; "User activated" is logged.
AfterUpdateUser(c) ==
    [c EXCEPT !.pc = "commit_update", !.log = "User activated"]

\* Mutant: the expiry check is missing.
AfterSelectCode_NoExpiry(c, rows, ac_row, now, blocked) ==
    IF rows = {}
    THEN Finish(c, "committed", "False", "no activation code")
    ELSE IF WrongCode(ac_row.code, c.code)
    THEN Finish(c, "committed", "False", "wrong code")
    ELSE LET d == [c EXCEPT !.pc = "update_user", !.db_code = ac_row.code,
                            !.expires = ac_row.expires_at, !.now = now]
         IN  IF blocked THEN d ELSE AfterUpdateUser(d)

\* Steps 4-5 on the fetched code row ac_row (none: rows = {}), with the clock
\* read; when every check passes the UPDATE of step 6 follows, and waits
\* (blocked) while another transaction holds the row updated and uncommitted.
AfterSelectCode(c, rows, ac_row, now, blocked) ==
    IF rows = {}
    THEN Finish(c, "committed", "False", "no activation code")
    ELSE IF WrongCode(ac_row.code, c.code)
    THEN Finish(c, "committed", "False", "wrong code")
    ELSE IF Expired(now, ac_row.expires_at)
    THEN Finish(c, "committed", "False", "code expired")
    ELSE LET d == [c EXCEPT !.pc = "update_user", !.db_code = ac_row.code,
                            !.expires = ac_row.expires_at, !.now = now]
         IN  IF blocked THEN d ELSE AfterUpdateUser(d)

\* fetchone() returns one of the rows the SELECT matches, in no stated order.
SelectCode(p) ==
    /\ calls[p].op = "activate_user" /\ calls[p].pc = "select_code"
    /\ LET rows == CodesOfUser(calls[p].user_id)
       IN  \E ac_row \in (IF rows = {} THEN {NewCodeRow(0, NoCode, -1)} ELSE rows) :
              calls' = [calls EXCEPT ![p] =
                          AfterSelectCode(calls[p], rows, ac_row, utcnow,
                                          UpdateBlocked(p, calls[p].user_id))]
    /\ UNCHANGED <<users, activation_codes, next_id, utcnow, ticks, ncalls>>

\* The UPDATE that had to wait goes on once the other transaction has ended.
UpdateUser(p) ==
    /\ calls[p].op = "activate_user" /\ calls[p].pc = "update_user"
    /\ ~UpdateBlocked(p, calls[p].user_id)
    /\ calls' = [calls EXCEPT ![p] = AfterUpdateUser(calls[p])]
    /\ UNCHANGED <<users, activation_codes, next_id, utcnow, ticks, ncalls>>

\* return True leaves `with conn:`, which commits the UPDATE.
CommitUpdate(p) ==
    /\ calls[p].op = "activate_user" /\ calls[p].pc = "commit_update"
    /\ users' = MarkActive(users, calls[p].user_id)
    /\ calls' = [calls EXCEPT ![p] =
                    Finish(calls[p], "committed", "True", calls[p].log)]
    /\ UNCHANGED <<activation_codes, next_id, utcnow, ticks, ncalls>>

\* The commit raises: the UPDATE is not durable.
CommitUpdateFails(p) ==
    /\ calls[p].op = "activate_user" /\ calls[p].pc = "commit_update"
    /\ calls' = [calls EXCEPT ![p] =
                    Finish(calls[p], "rolled_back", "StoreError", calls[p].log)]
    /\ UNCHANGED <<users, activation_codes, next_id, utcnow, ticks, ncalls>>

Next ==
    \/ Tick
    \/ \E p \in Procs : create_user(p)
    \/ \E p \in Procs : InsertUser(p)
    \/ \E p \in Procs : InsertCode(p)
    \/ \E p \in Procs : InsertCodeFails(p)
    \/ \E p \in Procs : Commit(p)
    \/ \E p \in Procs : CommitFails(p)
    \/ \E p \in Procs : activate_user(p)
    \/ \E p \in Procs : SelectCode(p)
    \/ \E p \in Procs : UpdateUser(p)
    \/ \E p \in Procs : CommitUpdate(p)
    \/ \E p \in Procs : CommitUpdateFails(p)

Spec == Init /\ [][Next]_vars

(***************************************************************************)
(* send_activation_email(email, code) on its own: a caller hands it an     *)
(* email and a code, the exchange with the email service ends in one of    *)
(* NetOutcomes, and the caller gets the function's return value.           *)
(***************************************************************************)
SendCall(email, code, net) ==
    [op |-> "send_activation_email", pc |-> "done",
     email |-> email, code |-> code,
     raised |-> net.raised, status |-> net.status,
     result |-> IF send_activation_email(net) THEN "True" ELSE "False"]

Send(p) ==
    /\ \E email \in Emails, code \in Codes, net \in NetOutcomes :
          calls' = [calls EXCEPT ![p] = SendCall(email, code, net)]
    /\ UNCHANGED <<users, activation_codes, next_id, utcnow, ticks, ncalls>>

SendNext == \E p \in Procs : Send(p)

SendSpec == Init /\ [][SendNext]_vars

(***************************************************************************)
(* The HTTP layer.                                                         *)
(***************************************************************************)
\* The routes declared on router (prefix /users) in api/routes/users.py.
router == {<<"POST", "/users">>, <<"POST", "/users/activate">>}

\* The routes create_app() registers on the application: GET /health.  It
\* does not include router.
create_app == {<<"GET", "/health">>}

\* register_user: status of the response for create_user's outcome (an
\* exception other than ConflictError leaves the handler: 500).
register_user(result) ==
    IF result = "ConflictError" THEN 409
    ELSE IF result = "None" THEN 201
    ELSE 500

\* activate: status of the response for activate_user's outcome.
activate(result) ==
    IF result = "True" THEN 200
    ELSE IF result = "False" THEN 400
    ELSE 500

\* Status with which app answers a request for method and path whose service
\* call ends (or would end) as result: a route that is not registered is
\* answered 404 and no handler runs.
app(method, path, result) ==
    IF <<method, path>> \notin create_app THEN 404
    ELSE IF <<method, path>> = <<"POST", "/users">> THEN register_user(result)
    ELSE IF <<method, path>> = <<"POST", "/users/activate">> THEN activate(result)
    ELSE 200

(***************************************************************************)
(* Properties.                                                             *)
(***************************************************************************)
\* The step is the one in which worker p is handed a call.
Starts(p) == Free(p) /\ ncalls' = ncalls + 1

\* The step is the one in which worker p's call returns or raises.
Returns(p) == calls'[p].pc = "done" /\ (Running(p) \/ Starts(p))

Registered(email) == UsersByEmail(email) # {}

UsersByEmailAfter(email) == {u \in users' : u.email = email}

\* C1, on states: no two rows of users share an email.
C1_UniqueEmail ==
    \A u1 \in users, u2 \in users : u1.email = u2.email => u1 = u2

\* C1, on the step in which a create_user call ends: for an email that is
\* already registered it raises ConflictError and leaves users as it was; for
\* an email that is not, it returns (or the store failed), and after a return
\* exactly one row holds that email.
C1_RegisterOutcome ==
    \A p \in Procs :
        (Returns(p) /\ calls'[p].op = "create_user") =>
            IF Registered(calls'[p].email)
            THEN /\ calls'[p].result = "ConflictError"
                 /\ users' = users
            ELSE /\ calls'[p].result \in {"None", "StoreError"}
                 /\ calls'[p].result = "None" =>
                        Cardinality(UsersByEmailAfter(calls'[p].email)) = 1

\* C1: email is unique across users after any calls; create_user for an
\* unregistered email succeeds and a second create_user for it raises
\* ConflictError, with exactly one row for the email.
C1_RegisterTwice == [](C1_UniqueEmail) /\ [][C1_RegisterOutcome]_vars

\* A second create_user for a registered email, run after the first, raised
\* ConflictError and one row holds the email.
C1_Witness ==
    \E p \in Procs :
        /\ calls[p].op = "create_user" /\ calls[p].pc = "done"
        /\ calls[p].result = "ConflictError"
        /\ ~calls[p].raced /\ ~calls[p].fresh
        /\ Cardinality(UsersByEmail(calls[p].email)) = 1

\* The create_user calls for email that began while it was unregistered and
\* ran concurrently with another create_user call for it.
Racers(email) ==
    {p \in Procs : /\ calls[p].op = "create_user" /\ calls[p].email = email
                   /\ calls[p].fresh /\ calls[p].raced}

\* C2: when concurrent create_user calls for one unregistered email have all
\* ended without a store failure, exactly one returned, every other raised
\* ConflictError, and one users row with one activation_codes row is stored.
C2_ConcurrentRegister ==
    \A email \in Emails :
        LET G == Racers(email) IN
        ( /\ Cardinality(G) >= 2
          /\ \A p \in G : calls[p].pc = "done" /\ calls[p].result # "StoreError" )
        => /\ Cardinality({p \in G : calls[p].result = "None"}) = 1
           /\ \A p \in G : calls[p].result \in {"None", "ConflictError"}
           /\ Cardinality(UsersByEmail(email)) = 1
           /\ \A u \in UsersByEmail(email) : Cardinality(CodesOfUser(u.id)) = 1

\* Two create_user calls for one unregistered email ran concurrently and have
\* both ended, one with None and one with ConflictError.
C2_Witness ==
    \E p \in Procs, q \in Procs :
        /\ p # q
        /\ {p, q} \subseteq Racers(calls[p].email)
        /\ calls[p].pc = "done" /\ calls[p].result = "None"
        /\ calls[q].pc = "done" /\ calls[q].result = "ConflictError"

\* C3, on states: a committed users row has an activation_codes row and an
\* activation_codes row has its users row.
C3_RowPairs ==
    /\ \A u \in users : CodesOfUser(u.id) # {}
    /\ \A c \in activation_codes : \E u \in users : u.id = c.user_id

\* C3, on the step in which a create_user call fails (ConflictError or a store
\* failure): the tables are as before, and no row with the id the call had
\* inserted is stored.
C3_FailurePersistsNothing ==
    \A p \in Procs :
        (Returns(p) /\ calls'[p].op = "create_user" /\ calls'[p].result # "None") =>
            /\ users' = users
            /\ activation_codes' = activation_codes
            /\ (Running(p) /\ calls[p].user_id # 0) =>
                  /\ \A u \in users' : u.id # calls[p].user_id
                  /\ \A c \in activation_codes' : c.user_id # calls[p].user_id

\* C3: the users row and its activation_codes row are committed together or
\* not at all; a create_user that fails at any step persists neither.
C3_AtomicCreation == [](C3_RowPairs) /\ [][C3_FailurePersistsNothing]_vars

\* A create_user call whose commit failed after both INSERTs: nothing of it
\* is stored.
C3_Witness ==
    \E p \in Procs :
        /\ calls[p].op = "create_user" /\ calls[p].pc = "done"
        /\ calls[p].result = "StoreError" /\ calls[p].ok # "unset"
        /\ calls[p].tx = "rolled_back"
        /\ ~Registered(calls[p].email)

\* The rows of worker p's running create_user call are committed.
OwnRowsCommitted(p) ==
    /\ \E u \in users : u.id = calls[p].user_id /\ u.email = calls[p].email
    /\ \E c \in activation_codes :
          c.user_id = calls[p].user_id /\ c.code = calls[p].code

\* C4: whenever send_activation_email has been called for a create_user call,
\* the call's users row and activation_codes row are already committed, and
\* the call does not fail afterwards.
C4_NotifiedOnlyAfterCommit ==
    \A p \in Procs :
        (calls[p].op = "create_user" /\ calls[p].ok # "unset") =>
            /\ Running(p) => OwnRowsCommitted(p)
            /\ calls[p].pc = "done" => calls[p].result = "None"

\* C5, on the step in which a create_user call that called the email service
\* ends: whatever the service answered, the call returns None with its users
\* row (is_active false) and activation_codes row stored, unless the store
\* failed at the commit, and then the tables are as before.
C5_OutcomeAfterSend ==
    \A p \in Procs :
        (Returns(p) /\ calls'[p].op = "create_user" /\ calls'[p].ok # "unset") =>
            /\ calls'[p].result \in {"None", "StoreError"}
            /\ calls'[p].result = "None" =>
                  \E u \in users' :
                      /\ u.id = calls[p].user_id /\ u.email = calls'[p].email
                      /\ ~u.is_active
                      /\ \E c \in activation_codes' :
                            c.user_id = u.id /\ c.code = calls[p].code
            /\ calls'[p].result = "StoreError" =>
                  /\ users' = users
                  /\ activation_codes' = activation_codes

\* C5: a failed send_activation_email does not fail create_user: the call
\* still returns and its rows are stored (a store failure apart, which ends
\* the call the same way after a successful send).
C5_NotifierFailureIgnored == [][C5_OutcomeAfterSend]_vars

\* A create_user call for an unregistered email returned None although the
\* email service had failed; the account is stored, inactive, with its code.
C5_Witness ==
    \E p \in Procs :
        /\ calls[p].op = "create_user" /\ calls[p].pc = "done"
        /\ calls[p].fresh /\ calls[p].ok = "False" /\ calls[p].result = "None"
        /\ \E u \in UsersByEmail(calls[p].email) :
              ~u.is_active /\ CodesOfUser(u.id) # {}

\* The time at which the activate_user call that ends in this step compared
\* (or compares) now with expires: the now it read, or the clock of this step.
CheckTime(p) ==
    IF calls[p].pc = "commit_update" THEN calls[p].now ELSE utcnow

\* The submitted credentials and code are the right ones for account u at the
\* time the call checks them.
RightPassword(p, u) == checkpw(calls'[p].password, u.password_hash)

RightCode(p, u) == \E c \in CodesOfUser(u.id) : c.code = calls'[p].code

Unexpired(p, u) == \A c \in CodesOfUser(u.id) : CheckTime(p) < c.expires_at

ActiveAfter(id) == \E u \in users' : u.id = id /\ u.is_active

\* C6, on the step in which an activate_user call ends: if its email is
\* registered, its password verifies against the stored hash, its code is the
\* stored code and the time it is checked at is before expires_at, the call
\* returns True and the account is active (or the store failed at the commit).
C6_ValidActivation ==
    \A p \in Procs :
        (Returns(p) /\ calls'[p].op = "activate_user") =>
            \A u \in UsersByEmail(calls'[p].email) :
                (RightPassword(p, u) /\ RightCode(p, u) /\ Unexpired(p, u)) =>
                    /\ calls'[p].result \in {"True", "StoreError"}
                    /\ calls'[p].result = "True" => ActiveAfter(u.id)

\* C6: activate_user with the correct password and the stored, unexpired code
\* sets is_active of an inactive account and returns True.
C6_ActivateSucceeds == [][C6_ValidActivation]_vars

\* An activate_user call passed every check, ran the UPDATE and returned True;
\* the account is active.
C6_Witness ==
    \E p \in Procs :
        /\ calls[p].op = "activate_user" /\ calls[p].pc = "done"
        /\ calls[p].result = "True" /\ calls[p].log = "User activated"
        /\ \E u \in UsersByEmail(calls[p].email) :
              /\ u.is_active
              /\ checkpw(calls[p].password, u.password_hash)
              /\ \E c \in CodesOfUser(u.id) : c.code = calls[p].code

\* C7, on every step: a row that is active stays in users and stays active,
\* and a row that is new in users is inactive.
C7_Step ==
    /\ \A u \in users : u.is_active => ActiveAfter(u.id)
    /\ \A v \in users' : (\A u \in users : u.id # v.id) => ~v.is_active

\* C7: is_active starts false and never goes from true back to false.
C7_ActiveIsAbsorbing == [][C7_Step]_vars

\* An account is active and a later activate_user call for it, with a wrong
\* password, found it active.
C7_Witness ==
    \E p \in Procs :
        /\ calls[p].op = "activate_user" /\ calls[p].pc = "done"
        /\ calls[p].log = "already active"
        /\ \E u \in UsersByEmail(calls[p].email) :
              u.is_active /\ ~checkpw(calls[p].password, u.password_hash)

\* C8, on the step in which activate_user is called for an email whose account
\* is active: the call returns True in that step, before any check of the
\* password or the code, and the tables are as before.
C8_Step ==
    \A p \in Procs :
        ( /\ Starts(p) /\ calls'[p].op = "activate_user"
          /\ \E u \in UsersByEmail(calls'[p].email) : u.is_active )
        => /\ calls'[p].pc = "done"
           /\ calls'[p].result = "True"
           /\ users' = users
           /\ activation_codes' = activation_codes

\* C8: for an active account activate_user returns True for any password and
\* any code, and changes nothing.
C8_ActiveIsIdempotent == [][C8_Step]_vars

\* activate_user returned True for an active account with a wrong password
\* and a code that is not the stored one.
C8_Witness ==
    \E p \in Procs :
        /\ calls[p].op = "activate_user" /\ calls[p].pc = "done"
        /\ calls[p].result = "True" /\ calls[p].log = "already active"
        /\ \E u \in UsersByEmail(calls[p].email) :
              /\ u.is_active
              /\ ~checkpw(calls[p].password, u.password_hash)
              /\ \A c \in CodesOfUser(u.id) : c.code # calls[p].code

\* C9, on the step in which an activate_user call ends for an inactive account
\* with the right password and the stored code, at a time of check that is
\* expires_at or later: the call returns False and users is as before.
C9_ExpiredRejected ==
    \A p \in Procs :
        (Returns(p) /\ calls'[p].op = "activate_user") =>
            \A u \in UsersByEmail(calls'[p].email) :
                ( /\ ~u.is_active /\ RightPassword(p, u) /\ RightCode(p, u)
                  /\ \E c \in CodesOfUser(u.id) : CheckTime(p) >= c.expires_at )
                => /\ calls'[p].result = "False"
                   /\ users' = users

\* C9, on every step: an account goes from inactive to active only in the
\* commit of an activate_user call that submitted the account's stored code
\* and read a time before its expires_at.
C9_FlipOnlyIfValid ==
    \A u \in users :
        (~u.is_active /\ ActiveAfter(u.id)) =>
            \E p \in Procs :
                /\ calls[p].op = "activate_user" /\ calls[p].pc = "commit_update"
                /\ calls'[p].pc = "done"
                /\ calls[p].user_id = u.id
                /\ \A c \in CodesOfUser(u.id) :
                      c.code = calls[p].code /\ calls[p].now < c.expires_at
                /\ CodesOfUser(u.id) # {}

\* C9: an account becomes active only with its stored code at now < expires_at;
\* at now >= expires_at (now = expires_at included) activate_user returns False
\* and the account stays inactive.
C9_StrictExpiry == [][C9_ExpiredRejected /\ C9_FlipOnlyIfValid]_vars

\* activate_user returned False for an inactive account although the password
\* and the code were right: it read the clock at exactly expires_at.
C9_Witness ==
    \E p \in Procs :
        /\ calls[p].op = "activate_user" /\ calls[p].pc = "done"
        /\ calls[p].result = "False" /\ calls[p].log = "code expired"
        /\ \E u \in UsersByEmail(calls[p].email) :
              /\ ~u.is_active
              /\ checkpw(calls[p].password, u.password_hash)
              /\ \E c \in CodesOfUser(u.id) :
                    c.code = calls[p].code /\ c.expires_at = utcnow

\* C10, on the step in which an activate_user call ends: for an unknown email,
\* for a wrong password on an inactive account, for a code that is not the
\* stored one and for an expired code the result is the same value, False.
C10_FailureCauses ==
    \A p \in Procs :
        (Returns(p) /\ calls'[p].op = "activate_user") =>
            /\ ~Registered(calls'[p].email) => calls'[p].result = "False"
            /\ \A u \in UsersByEmail(calls'[p].email) :
                  ~u.is_active =>
                     /\ ~RightPassword(p, u) => calls'[p].result = "False"
                     /\ ~RightCode(p, u) => calls'[p].result = "False"
                     /\ ~Unexpired(p, u) => calls'[p].result = "False"

\* C10, on states: any two activate_user calls that failed on a check gave
\* their callers the same result.
C10_OneFailureKind ==
    \A p \in Procs, q \in Procs :
        ( /\ calls[p].op = "activate_user" /\ calls[p].pc = "done"
          /\ calls[q].op = "activate_user" /\ calls[q].pc = "done"
          /\ calls[p].tx = "committed" /\ calls[q].tx = "committed"
          /\ calls[p].result # "True" /\ calls[q].result # "True" )
        => calls[p].result = calls[q].result

\* C10: activate_user fails in one way only, whatever the cause: the caller
\* cannot tell an unknown email from a wrong password.
C10_UniformFailure == [](C10_OneFailureKind) /\ [][C10_FailureCauses]_vars

\* One activate_user call failed on an unknown email, another on a wrong
\* password for a registered, inactive account: both callers got False.
C10_Witness ==
    \E p \in Procs, q \in Procs :
        /\ calls[p].op = "activate_user" /\ calls[p].pc = "done"
        /\ calls[p].log = "unknown user" /\ calls[p].result = "False"
        /\ calls[q].op = "activate_user" /\ calls[q].pc = "done"
        /\ calls[q].log = "invalid password" /\ calls[q].result = "False"
        /\ \E u \in UsersByEmail(calls[q].email) :
              ~u.is_active /\ ~checkpw(calls[q].password, u.password_hash)

\* A running activate_user call that is past step 3.
PastPasswordCheck(p) ==
    /\ calls[p].op = "activate_user"
    /\ calls[p].pc \in {"select_code", "update_user", "commit_update"}

\* C11, on states: an activate_user call that has reached the code lookup, the
\* UPDATE or its commit submitted a password that verifies against the stored
\* hash of the account it is about to write.
C11_VerifiedAtWrite ==
    \A p \in Procs :
        PastPasswordCheck(p) =>
            \E u \in UsersByEmail(calls[p].email) :
                /\ u.id = calls[p].user_id
                /\ checkpw(calls[p].password, u.password_hash)

\* C11, on the step in which an activate_user call returns False: users and
\* activation_codes are as before.
C11_FailureStep ==
    \A p \in Procs :
        ( /\ Returns(p) /\ calls'[p].op = "activate_user"
          /\ calls'[p].result = "False" )
        => /\ users' = users
           /\ activation_codes' = activation_codes

\* C11, on every step: an account goes from inactive to active only in the
\* commit of an activate_user call for its email whose password verifies.
C11_VerifiedBeforeMutation ==
    \A u \in users :
        (~u.is_active /\ ActiveAfter(u.id)) =>
            \E p \in Procs :
                /\ calls[p].op = "activate_user" /\ calls[p].pc = "commit_update"
                /\ calls'[p].pc = "done"
                /\ calls[p].email = u.email
                /\ checkpw(calls[p].password, u.password_hash)

\* C11: the password is verified before any write to the account, and an
\* activate_user call that returns False (unknown email, wrong password, no
\* code, wrong code, expired code) leaves every row of users and of
\* activation_codes as it was.
C11_FailedActivateChangesNothing ==
    [](C11_VerifiedAtWrite) /\ [][C11_FailureStep /\ C11_VerifiedBeforeMutation]_vars

\* An activate_user call with the right password and a code that is not the
\* stored one returned False; the account is inactive and keeps its code row.
C11_Witness ==
    \E p \in Procs :
        /\ calls[p].op = "activate_user" /\ calls[p].pc = "done"
        /\ calls[p].result = "False" /\ calls[p].log = "wrong code"
        /\ \E u \in UsersByEmail(calls[p].email) :
              /\ ~u.is_active
              /\ checkpw(calls[p].password, u.password_hash)
              /\ CodesOfUser(u.id) # {}
              /\ \A c \in CodesOfUser(u.id) : c.code # calls[p].code

\* C12, on states: a create_user call that raised ConflictError rolled its
\* transaction back and never called the email service.
C12_ConflictState ==
    \A p \in Procs :
        ( /\ calls[p].op = "create_user" /\ calls[p].pc = "done"
          /\ calls[p].result = "ConflictError" )
        => /\ calls[p].ok = "unset"
           /\ calls[p].tx = "rolled_back"
           /\ calls[p].log = ""

\* C12, on the step in which a create_user call raises ConflictError: the
\* email was registered, users and activation_codes are as before, and the
\* email service was not called.
C12_ConflictStep ==
    \A p \in Procs :
        ( /\ Returns(p) /\ calls'[p].op = "create_user"
          /\ calls'[p].result = "ConflictError" )
        => /\ Registered(calls'[p].email)
           /\ users' = users
           /\ activation_codes' = activation_codes
           /\ calls'[p].ok = "unset"

\* C12: a create_user that raises ConflictError persists nothing, leaves the
\* existing account and its code as they were, and does not call the email
\* service.
C12_ConflictPersistsNothing ==
    [](C12_ConflictState) /\ [][C12_ConflictStep]_vars

\* create_user raised ConflictError for the email of an account that had been
\* activated: the account is still active, with its one code row, and the
\* email service was not called.
C12_Witness ==
    \E p \in Procs :
        /\ calls[p].op = "create_user" /\ calls[p].pc = "done"
        /\ calls[p].result = "ConflictError" /\ calls[p].ok = "unset"
        /\ \E u \in UsersByEmail(calls[p].email) :
              u.is_active /\ Cardinality(CodesOfUser(u.id)) = 1

\* s is a string of exactly CodeWidth decimal digits (^\d{4}$).
IsCode(s) == Len(s) = CodeWidth /\ \A i \in 1..Len(s) : s[i] \in 0..9

\* The number a string of digits reads as.
RECURSIVE CodeValue(_)
CodeValue(s) ==
    IF s = << >> THEN 0
    ELSE 10 * CodeValue(SubSeq(s, 1, Len(s) - 1)) + s[Len(s)]

\* C13, on the code generator: every integer of random.randint's range is
\* formatted as four digits that read as that integer ("0000".."9999").
C13_CodeFormat ==
    \A n \in CodeLo..CodeHi :
        IsCode(generate_code(n)) /\ CodeValue(generate_code(n)) = n

\* C13, on the step in which create_user draws the code and reads the clock:
\* the code is four digits and expires is the clock's value plus 60 seconds,
\* so the code is unexpired at the time it is issued.
C13_IssueStep ==
    \A p \in Procs :
        ( /\ calls[p].op = "create_user" /\ calls[p].pc = "insert_code"
          /\ calls'[p].pc = "commit" )
        => /\ IsCode(calls'[p].code)
           /\ calls'[p].expires = utcnow + CodeTTL
           /\ calls'[p].expires >= utcnow + 59
           /\ calls'[p].expires <= utcnow + 61
           /\ ~Expired(utcnow, calls'[p].expires)

\* C13, on the step in which create_user returns None: one users row is new,
\* for the call's email, with is_active false, and activation_codes holds
\* exactly one row for it, new as well, with the code and the expires_at the
\* call had issued; when the call returns within a second of its reading the
\* clock, expires_at lies in [now + 59, now + 61] of the time of return and
\* the code is unexpired.
C13_RegisterStep ==
    \A p \in Procs :
        ( /\ Returns(p) /\ calls'[p].op = "create_user"
          /\ calls'[p].result = "None" )
        => \E u \in users' \ users :
              /\ users' = users \cup {u}
              /\ u.email = calls'[p].email /\ ~u.is_active
              /\ u.password_hash = calls[p].hashed
              /\ {c \in activation_codes' : c.user_id = u.id}
                    = {NewCodeRow(u.id, calls[p].code, calls[p].expires)}
              /\ activation_codes' =
                    activation_codes \cup {NewCodeRow(u.id, calls[p].code, calls[p].expires)}
              /\ CodesOfUser(u.id) = {}
              /\ IsCode(calls[p].code)
              /\ utcnow <= calls[p].expires - CodeTTL + 1 =>
                    /\ calls[p].expires >= utcnow + 59
                    /\ calls[p].expires <= utcnow + 61
                    /\ ~Expired(utcnow, calls[p].expires)

\* C13: a create_user that returns None has stored an inactive account with
\* exactly one activation code, a zero-padded string of four digits, whose
\* expires_at is the time the call read plus 60 seconds.
C13_RegisterIssuesOneCode ==
    [](C13_CodeFormat) /\ [][C13_IssueStep /\ C13_RegisterStep]_vars

\* create_user returned None with the drawn integer 0: the stored code is
\* "0000", the account is inactive and has this one code, which is unexpired.
C13_Witness ==
    \E p \in Procs :
        /\ calls[p].op = "create_user" /\ calls[p].pc = "done"
        /\ calls[p].result = "None" /\ calls[p].code = <<0, 0, 0, 0>>
        /\ \E u \in UsersByEmail(calls[p].email) :
              /\ ~u.is_active
              /\ \E c \in activation_codes :
                    /\ CodesOfUser(u.id) = {c}
                    /\ c.code = <<0, 0, 0, 0>>
                    /\ c.expires_at = utcnow + CodeTTL

\* The finished activate_user call of worker p submitted the password and the
\* stored code of account u, found the account (it ran after the account's
\* create_user had committed) and did not find the code expired.
PassedChecks(p, u) ==
    /\ calls[p].op = "activate_user" /\ calls[p].pc = "done"
    /\ calls[p].email = u.email
    /\ checkpw(calls[p].password, u.password_hash)
    /\ \E c \in CodesOfUser(u.id) : c.code = calls[p].code
    /\ calls[p].log \notin {"unknown user", "code expired"}

\* C14, on states: when two activate_user calls for one account have both
\* ended, each with the right password and the right code and neither finding
\* it expired, both returned True (or the store failed at a commit), and the
\* account is active as soon as one of them returned True.
C14_BothSucceed ==
    \A p \in Procs, q \in Procs : \A u \in users :
        (p # q /\ PassedChecks(p, u) /\ PassedChecks(q, u)) =>
            /\ calls[p].result \in {"True", "StoreError"}
            /\ calls[q].result \in {"True", "StoreError"}
            /\ ("True" \in {calls[p].result, calls[q].result}) => u.is_active

\* C14, on every step: an account goes from inactive to active only in the
\* commit of an activate_user call for it that passed the password check, the
\* code comparison and the expiry check.
C14_FlipOnlyIfPassed ==
    \A u \in users :
        (~u.is_active /\ ActiveAfter(u.id)) =>
            \E p \in Procs :
                /\ calls[p].op = "activate_user" /\ calls[p].pc = "commit_update"
                /\ calls'[p].pc = "done" /\ calls'[p].result = "True"
                /\ calls[p].user_id = u.id
                /\ checkpw(calls[p].password, u.password_hash)
                /\ \E c \in CodesOfUser(u.id) :
                      /\ ~WrongCode(c.code, calls[p].code)
                      /\ ~Expired(calls[p].now, c.expires_at)

\* C14: two concurrent activate_user calls with the right password and the
\* right unexpired code both return True and leave the account active, in any
\* interleaving; and in any interleaving of activate_user calls the account
\* becomes active only through a call that passed every check.
C14_ConcurrentActivateBenign ==
    [](C14_BothSucceed) /\ [][C14_FlipOnlyIfPassed]_vars

\* Two activate_user calls for one account both passed the checks before
\* either had committed, both ran the UPDATE and both returned True.
C14_Witness ==
    \E p \in Procs, q \in Procs :
        /\ p # q
        /\ calls[p].op = "activate_user" /\ calls[p].pc = "done"
        /\ calls[q].op = "activate_user" /\ calls[q].pc = "done"
        /\ calls[p].email = calls[q].email
        /\ calls[p].log = "User activated" /\ calls[p].result = "True"
        /\ calls[q].log = "User activated" /\ calls[q].result = "True"
        /\ \E u \in UsersByEmail(calls[p].email) : u.is_active

\* C15, on states: a call that has returned or raised has its transaction
\* committed or rolled back and its connection closed; only a running call
\* holds an open connection and an open transaction; a call that raised left
\* a rolled-back transaction.
C15_ResourcesReleased ==
    \A p \in Procs :
        /\ calls[p].pc = "done" =>
              /\ calls[p].conn = "closed"
              /\ calls[p].tx \in {"committed", "rolled_back"}
              /\ calls[p].result \in {"ConflictError", "StoreError"} =>
                    calls[p].tx = "rolled_back"
        /\ Running(p) <=> (calls[p].conn = "open" /\ calls[p].tx = "open")
        /\ calls[p].pc = "idle" => (calls[p].conn = "none" /\ calls[p].tx = "none")

\* One call raised ConflictError, another returned False on a check: both
\* connections are closed, the first transaction rolled back, the second
\* committed.
C15_Witness ==
    \E p \in Procs, q \in Procs :
        /\ calls[p].op = "create_user" /\ calls[p].pc = "done"
        /\ calls[p].result = "ConflictError"
        /\ calls[p].conn = "closed" /\ calls[p].tx = "rolled_back"
        /\ calls[q].op = "activate_user" /\ calls[q].pc = "done"
        /\ calls[q].result = "False"
        /\ calls[q].conn = "closed" /\ calls[q].tx = "committed"

C17_StatusOfOutcome ==
    \A p \in Procs :
        calls[p].pc = "done" =>
            /\ (calls[p].op = "create_user" /\ calls[p].result = "None") =>
                  app("POST", "/users", calls[p].result) = 201
            /\ (calls[p].op = "create_user" /\ calls[p].result = "ConflictError") =>
                  app("POST", "/users", calls[p].result) = 409
            /\ (calls[p].op = "activate_user" /\ calls[p].result = "True") =>
                  app("POST", "/users/activate", calls[p].result) = 200
            /\ (calls[p].op = "activate_user" /\ calls[p].result = "False") =>
                  app("POST", "/users/activate", calls[p].result) = 400

\* The step is one of worker p's activate_user call.
ActivateStep(p) ==
    \/ Starts(p) /\ calls'[p].op = "activate_user"
    \/ Running(p) /\ calls[p].op = "activate_user" /\ calls'[p] # calls[p]

\* C18, on every step: every users row is still there with its id, email and
\* password_hash; every activation_codes row is still there, unchanged; and a
\* step of an activate_user call leaves activation_codes as it was, adds no
\* account and changes no account but the one of its email, of which it
\* changes nothing but is_active.
C18_Step ==
    /\ \A u \in users :
          \E v \in users' :
              /\ v.id = u.id /\ v.email = u.email
              /\ v.password_hash = u.password_hash
    /\ activation_codes \subseteq activation_codes'
    /\ \A p \in Procs :
          ActivateStep(p) =>
              /\ activation_codes' = activation_codes
              /\ Cardinality(users') = Cardinality(users)
              /\ \A u \in users : u.email # calls'[p].email => u \in users'

\* C18: no call deletes an account or changes an account's id, email or
\* password_hash; activate_user writes nothing but is_active of the account it
\* activates: it never touches activation_codes nor another account.
C18_ActivateFrame == [][C18_Step]_vars

\* With two accounts stored, activate_user activated one: its code row is
\* still stored with the submitted code, and the other account is inactive.
C18_Witness ==
    \E p \in Procs :
        /\ calls[p].op = "activate_user" /\ calls[p].pc = "done"
        /\ calls[p].log = "User activated" /\ calls[p].result = "True"
        /\ \E u \in UsersByEmail(calls[p].email) :
              /\ u.is_active
              /\ \E c \in CodesOfUser(u.id) : c.code = calls[p].code
        /\ \E v \in users :
              v.email # calls[p].email /\ ~v.is_active /\ CodesOfUser(v.id) # {}

\* C19, on states: every account has exactly one activation_codes row and an
\* account that is not committed yet has none; the row that an activate_user
\* call fetched is the only row of its account, so fetchone() had no choice.
C19_OneCodePerAccount ==
    /\ \A u \in users : Cardinality(CodesOfUser(u.id)) = 1
    /\ \A p \in Procs :
          /\ ( /\ calls[p].op = "create_user" /\ Running(p)
               /\ calls[p].user_id # 0 )
             => CodesOfUser(calls[p].user_id) = {}
          /\ ( /\ calls[p].op = "activate_user"
               /\ calls[p].pc \in {"update_user", "commit_update"} )
             => CodesOfUser(calls[p].user_id) =
                    {NewCodeRow(calls[p].user_id, calls[p].db_code, calls[p].expires)}

\* With the codes of two accounts stored, an activate_user call has fetched
\* the code row of its account, the only one of that account.
C19_Witness ==
    \E p \in Procs :
        /\ calls[p].op = "activate_user" /\ calls[p].pc = "commit_update"
        /\ Cardinality(activation_codes) = 2
        /\ \E c \in activation_codes :
              /\ CodesOfUser(calls[p].user_id) = {c}
              /\ c.code = calls[p].db_code

\* Account u is inactive and the clock has reached the expires_at of its code.
ExpiredInactive(u) ==
    /\ ~u.is_active
    /\ \A c \in CodesOfUser(u.id) : Expired(utcnow, c.expires_at)

\* On a step from a state in which account u is expired and inactive: a
\* create_user call for its email that ends raises ConflictError, and the
\* account's code row stays the only one, as it is.
NoNewCode(u) ==
    /\ \A p \in Procs :
          ( /\ Returns(p) /\ calls'[p].op = "create_user"
            /\ calls'[p].email = u.email )
          => calls'[p].result = "ConflictError"
    /\ {c \in activation_codes' : c.user_id = u.id} = CodesOfUser(u.id)

\* C20 as stated, on every step: an account that is inactive with its code
\* expired is not active after the step, whatever call takes the step; and
\* create_user for its email raises ConflictError and no code is issued.
C20_ExpiredStaysInactive ==
    \A u \in users :
        ExpiredInactive(u) => (~ActiveAfter(u.id) /\ NoNewCode(u))

\* C20 as stated: once now >= expires_at for an inactive account, no call ever
\* makes it active, and every create_user for its email raises ConflictError.
C20_ExpiredIsDeadEnd == [][C20_ExpiredStaysInactive]_vars

\* C20, amended, on every step from a state in which account u is inactive
\* with its code expired: the clock does not go back; an activate_user call
\* for u that reads the clock in this step returns False; u is active after
\* the step only by the commit of an activate_user call that had read the
\* clock before expires_at; create_user for its email raises ConflictError
\* and no code is issued.
C20_ExpiredStep ==
    \A u \in users :
        ExpiredInactive(u) =>
            /\ utcnow' >= utcnow
            /\ \A p \in Procs :
                  ( /\ calls[p].op = "activate_user" /\ calls[p].pc = "select_code"
                    /\ calls[p].user_id = u.id /\ calls'[p] # calls[p] )
                  => /\ calls'[p].pc = "done" /\ calls'[p].result = "False"
                     /\ users' = users
            /\ ActiveAfter(u.id) =>
                  \E p \in Procs :
                      /\ calls[p].op = "activate_user"
                      /\ calls[p].pc = "commit_update"
                      /\ calls'[p].pc = "done"
                      /\ calls[p].user_id = u.id
                      /\ \A c \in CodesOfUser(u.id) :
                            ~Expired(calls[p].now, c.expires_at)
            /\ NoNewCode(u)

\* C20, amended: once now >= expires_at for an inactive account, every
\* activate_user call that checks the expiry from then on fails, so the
\* account can become active only through a call that had passed the check
\* before expires_at and was still to commit; and every later create_user
\* for its email raises ConflictError, so that no new code is issued.
C20_ExpiredIsDeadEndForLaterChecks == [][C20_ExpiredStep]_vars

\* An account is inactive with its code expired: an activate_user call with
\* the right password and the right code found the code expired, and a
\* create_user call for its email raised ConflictError.
C20_Witness ==
    \E p \in Procs, q \in Procs : \E u \in users :
        /\ ExpiredInactive(u)
        /\ calls[p].op = "activate_user" /\ calls[p].pc = "done"
        /\ calls[p].email = u.email
        /\ calls[p].log = "code expired" /\ calls[p].result = "False"
        /\ checkpw(calls[p].password, u.password_hash)
        /\ calls[q].op = "create_user" /\ calls[q].pc = "done"
        /\ calls[q].email = u.email /\ calls[q].result = "ConflictError"

====
